---- MODULE Spec2Model ----
(***************************************************************************)
(* TULFS, the FUSE client of networked_file_system/src/client/             *)
(* client_main.rs: the path/inode registry, the open-file table, the       *)
(* staged files of the local cache and the remote files, driven by the     *)
(* kernel callbacks init, lookup, getattr, open, read, write, flush and    *)
(* release.  Every callback is cut at the places where it takes or drops   *)
(* the mutex of `st` and at its file and SFTP operations.                  *)
(***************************************************************************)
EXTENDS Integers, Sequences, FiniteSets, TLC

(***************************************************************************)
(* Program constants.                                                      *)
(***************************************************************************)
ROOT_INODE == 1
O_RDONLY == 0
O_WRONLY == 1
O_RDWR == 2
O_ACCMODE == 3

(***************************************************************************)
(* Bounds of the model.                                                    *)
(***************************************************************************)
\* opens are started while next_fh is at most this
MaxFh == 2
\* the same, where the cache directory is not empty at the start
MaxFhCache == 3
\* a write ends at most at this file length
MaxLen == 1
\* at most this many input/output operations fail without a cause in the state
MaxFaults == 1

Threads == {"t1", "t2"}
Names == {"a", "b"}
Free == "free"
None == "none"
\* Option<T>: Some(v) and NoneOpt
Some(v) == <<v>>
NoneOpt == << >>

(***************************************************************************)
(* PathBuf: absolute or relative, and its normal components.               *)
(***************************************************************************)
PathBuf(abs, comps) == [abs |-> abs, comps |-> comps]
RootPath == PathBuf(TRUE, <<>>)

\* path.strip_prefix("/").unwrap_or(&path)
strip_prefix_root(path) == PathBuf(FALSE, path.comps)

\* parent_path.join(name), name a single relative component or the empty name,
\* which adds no component
join(parent_path, name) ==
    IF name = "" THEN parent_path
    ELSE PathBuf(parent_path.abs, Append(parent_path.comps, name))

\* the 64-bit prefix of md5(path), one value for every path string of the model;
\* "a" has a digest in the range of the handle identifiers
Digest(comps) ==
    CASE comps = <<>> -> 10
      [] comps = <<"a">> -> 2
      [] comps = <<"b">> -> 11
      [] comps = <<"a", "b">> -> 12
      [] OTHER -> 14

get_local_abs_path(path) ==
    IF path.abs THEN <<"/">> \o path.comps ELSE <<"tulfs_cache">> \o path.comps

get_remote_abs_path(rel) ==
    IF rel.abs THEN <<"/">> \o rel.comps ELSE <<"backing_root">> \o rel.comps

\* the lookups the kernel sends: the files "a" and "b" of the backing root, and the
\* name "b" under the file "a", which the remote side does not have
LookupArgs == {<<ROOT_INODE, "a">>, <<ROOT_INODE, "b">>, <<Digest(<<"a">>), "b">>}
\* the inodes the kernel opens and stats: what lookup handed out
KernelInodes == {Digest(<<"a">>), Digest(<<"b">>), Digest(<<"a", "b">>)}
OpenFlags == {O_RDONLY, O_WRONLY, O_RDWR}

\* the environment: the lookups the kernel sends, the inodes it opens and stats, the
\* flags it opens with, how many input/output operations may fail, and how many
\* handles it lets the program issue
Kernel(lookups, inodes, flags, failures, handles) ==
    [lookups |-> lookups, inodes |-> inodes, flags |-> flags, failures |-> failures,
     handles |-> handles]
\* every request of the model, with failures
AllRequests == Kernel(LookupArgs, KernelInodes, OpenFlags, MaxFaults, MaxFh)
\* the requests on the one file "a", without failures
OneFile == Kernel({<<ROOT_INODE, "a">>}, {Digest(<<"a">>)}, {O_RDWR}, 0, MaxFh)
\* the requests on the files "a" and "b", without failures, with one more handle
TwoFiles == Kernel({<<ROOT_INODE, "a">>, <<ROOT_INODE, "b">>},
                   {Digest(<<"a">>), Digest(<<"b">>)}, OpenFlags, 0, MaxFhCache)
\* the requests on the file "a" and the lookup of the empty name under the root,
\* whose child path is the root path itself
RootLookups == Kernel({<<ROOT_INODE, "">>, <<ROOT_INODE, "a">>}, {Digest(<<"a">>)},
                      {O_RDWR}, 0, MaxFh)
WriteData == {<<7>>}
ReadSizes == {1}

(***************************************************************************)
(* State.                                                                  *)
(***************************************************************************)
VARIABLES
    inode_to_path,  \* State.inode_to_path: inode -> PathBuf
    path_to_inode,  \* State.path_to_inode: PathBuf -> inode
    next_fh,        \* State.next_fh
    open_files,     \* State.open_files: handle -> OpenEntry
    mutex,          \* the holder of the Mutex<State>, or Free
    local_fs,       \* local directory entries: local path -> file object
    file_data,      \* the bytes of every local file object
    remote,         \* the remote files: remote path -> bytes, or None
    pc,             \* where every callback thread stands
    cb,             \* the arguments and locals of the callback a thread runs
    faults,         \* the input/output failures injected so far
    issued,         \* history: the handles of the ReplyOpen::opened replies, in order
    lastw,          \* history: handle, offset and bytes of the latest local write
    lastr,          \* history: the handle of the latest read that replied data, or 0
    released,       \* history: the paths whose last handle was released with success and
                    \* that no open has been tried on since -> the removal of the file failed
    looked_up,      \* history: the inodes of the ReplyEntry::entry replies
    only_read       \* history: the paths in `released` whose released handle was read
                    \* with success and not written

vars == <<inode_to_path, path_to_inode, next_fh, open_files, mutex, local_fs,
          file_data, remote, pc, cb, faults, issued, lastw, lastr, released, looked_up,
          only_read>>

(***************************************************************************)
(* Replies and callback records.                                           *)
(***************************************************************************)
Reply(kind, val) == [kind |-> kind, val |-> val]
Error(errno) == Reply("error", errno)
NoReply == Reply("none", None)

IdleCb == [op |-> "idle", ino |-> 0, name |-> None, fh |-> 0, flags |-> 0,
           offset |-> 0, data |-> <<>>, size |-> 0, path |-> PathBuf(FALSE, <<>>),
           child |-> 0, entry_ino |-> 0, file |-> [obj |-> 0, r |-> FALSE, w |-> FALSE], is_dirty |-> FALSE, write_access |-> FALSE,
           reply |-> NoReply]

NoWrite == [fh |-> 0, offset |-> 0, data |-> <<>>]

\* a File: the file object it refers to and the access mode it was opened with
File(obj, r, w) == [obj |-> obj, r |-> r, w |-> w]

OpenEntry(file, ino, flags, dirty) ==
    [file |-> file, ino |-> ino, flags |-> flags, dirty |-> dirty]

\* f with key k bound to v (HashMap::insert), and f without key k (HashMap::remove)
Insert(f, k, v) == [x \in DOMAIN f \cup {k} |-> IF x = k THEN v ELSE f[x]]
Remove(f, k) == [x \in DOMAIN f \ {k} |-> f[x]]

\* a callback that has replied returns before any other thread takes a step
NoneDone == \A u \in Threads : pc[u] # "done"

\* the reply is sent
Finish(t, reply) ==
    /\ NoneDone
    /\ pc' = [pc EXCEPT ![t] = "done"]
    /\ cb' = [cb EXCEPT ![t].reply = reply]

Goto(t, label) == NoneDone /\ pc' = [pc EXCEPT ![t] = label]

\* callbacks in flight on handle fh: the kernel serializes the operations of one handle
Busy(fh) == \E u \in Threads : pc[u] # "idle" /\ cb[u].op \in {"read", "write", "flush", "release"} /\ cb[u].fh = fh

(***************************************************************************)
(* The remote side, seen through SFTP.                                     *)
(***************************************************************************)
BackingRoot == <<"backing_root">>

\* sftp.stat: "dir", "file" or None when the path cannot be stat'ed
sftp_stat(key) ==
    IF key = BackingRoot THEN "dir"
    ELSE IF key \in DOMAIN remote THEN "file" ELSE None

is_remote_dir(key) == sftp_stat(key) = "dir"

\* Option::unwrap_or
unwrap_or(opt, default) == IF opt = NoneOpt THEN default ELSE opt[1]

\* ssh2::FileStat: the attributes of an SFTP stat reply, each of them optional
FileStat(size, perm) == [size |-> size, perm |-> perm]

\* the file type bits of a mode, and the defaults of attr_from_remote for perm
S_IFDIR == 16384
S_IFREG == 32768
DirPerm == 493
FilePerm == 420
\* FileStat::is_dir: the file type in perm is S_IFDIR; no perm, no type
is_dir_of(m) == ((unwrap_or(m.perm, 0) \div 4096) % 16) * 4096 = S_IFDIR

\* the FileAttr that attr_from_remote builds from its stat and from is_dir;
\* perm is cast to u16
FileAttr(stat, is_dir, ino) ==
    [ino |-> ino,
     size |-> IF is_dir THEN 0 ELSE unwrap_or(stat.size, 0),
     kind |-> IF is_dir THEN "Directory" ELSE "RegularFile",
     perm |-> unwrap_or(stat.perm, IF is_dir THEN DirPerm ELSE FilePerm) % 65536,
     nlink |-> IF is_dir THEN 2 ELSE 1,
     blksize |-> 512]

\* the stat reply of the remote side of the model, which sends every attribute
remote_stat(key) ==
    IF key = BackingRoot THEN FileStat(Some(4096), Some(S_IFDIR + DirPerm))
    ELSE FileStat(Some(Len(remote[key])), Some(S_IFREG + FilePerm))

attr_from_remote(rel, ino) ==
    LET full_path == get_remote_abs_path(rel)
        is_dir == is_remote_dir(full_path)
    IN  IF sftp_stat(full_path) = None THEN Error("ENOENT")
        ELSE Reply("attr", FileAttr(remote_stat(full_path), is_dir, ino))

(***************************************************************************)
(* Registry.                                                               *)
(***************************************************************************)
\* path_for_inode; it locks the state unless ino is the root
path_for_inode(ino) ==
    IF ino = ROOT_INODE THEN Some(RootPath)
    ELSE IF ino \in DOMAIN inode_to_path THEN Some(inode_to_path[ino]) ELSE NoneOpt

CanResolve(ino) == ino = ROOT_INODE \/ mutex = Free

\* TULFS::new, over a cache directory that holds no file (NoneOpt) or the file "a"
\* with the bytes given
Start(stale) ==
    /\ inode_to_path = << >>
    /\ path_to_inode = << >>
    /\ next_fh = 1
    /\ open_files = << >>
    /\ mutex = Free
    /\ local_fs = IF stale = NoneOpt THEN << >> ELSE [k \in {<<"tulfs_cache", "a">>} |-> 1]
    /\ file_data = IF stale = NoneOpt THEN << >> ELSE [o \in {1} |-> stale[1]]
    /\ remote = [k \in {BackingRoot \o <<n>> : n \in Names} |->
                   IF k[2] = "a" THEN <<1>> ELSE <<2>>]
    /\ pc = [t \in Threads |-> "idle"]
    /\ cb = [t \in Threads |-> IdleCb]
    /\ faults = 0
    /\ issued = << >>
    /\ lastw = NoWrite
    /\ lastr = 0
    /\ released = << >>
    /\ looked_up = {}
    /\ only_read = {}

\* the cache directory is empty
Init == Start(NoneOpt)

\* what the cache directory may hold at the start: nothing, or a file "a" staged by
\* an earlier run, whose bytes are not those of the remote file
StaleCaches == {NoneOpt, Some(<<9>>)}

CacheInit == \E stale \in StaleCaches : Start(stale)

Initialized == ROOT_INODE \in DOMAIN inode_to_path

UNCH_state == UNCHANGED <<inode_to_path, path_to_inode, next_fh, open_files>>
UNCH_files == UNCHANGED <<local_fs, file_data, remote>>
UNCH_hist == UNCHANGED <<issued, lastw, lastr, released, looked_up, only_read>>

\* an operation of the operating system or of the SFTP session fails
Fault(K) == faults < K.failures /\ faults' = faults + 1
NoFault == UNCHANGED faults

(***************************************************************************)
(* init: ensure_root.                                                      *)
(***************************************************************************)
init(t) ==
    /\ pc[t] = "idle" /\ mutex = Free
    /\ ~Initialized
    /\ inode_to_path' = Insert(inode_to_path, ROOT_INODE, RootPath)
    /\ path_to_inode' = Insert(path_to_inode, RootPath, ROOT_INODE)
    /\ UNCHANGED <<next_fh, open_files, mutex, pc, cb>>
    /\ UNCH_files /\ UNCH_hist /\ NoFault

(***************************************************************************)
(* getattr.                                                                *)
(***************************************************************************)
getattr(t, K) ==
    /\ pc[t] = "idle" /\ Initialized
    /\ \E ino \in K.inodes \cup {ROOT_INODE} :
         IF ino = ROOT_INODE
         THEN /\ pc' = [pc EXCEPT ![t] = "done"]
              /\ cb' = [cb EXCEPT ![t] = [IdleCb EXCEPT !.op = "getattr", !.ino = ino,
                          !.reply = Reply("attr", [ino |-> ROOT_INODE, size |-> 0,
                                     kind |-> "Directory", nlink |-> 2, blksize |-> 512])]]
         ELSE /\ pc' = [pc EXCEPT ![t] = "getattr_path"]
              /\ cb' = [cb EXCEPT ![t] = [IdleCb EXCEPT !.op = "getattr", !.ino = ino]]
    /\ UNCHANGED mutex /\ UNCH_state /\ UNCH_files /\ UNCH_hist /\ NoFault

getattr_path(t) ==
    /\ pc[t] = "getattr_path" /\ CanResolve(cb[t].ino)
    /\ LET path == path_for_inode(cb[t].ino)
       IN  IF path = NoneOpt
           THEN Finish(t, Error("ENOENT"))
           ELSE /\ Goto(t, "getattr_stat")
                /\ cb' = [cb EXCEPT ![t].path = path[1]]
    /\ UNCHANGED mutex /\ UNCH_state /\ UNCH_files /\ UNCH_hist /\ NoFault

getattr_stat(t) ==
    /\ pc[t] = "getattr_stat"
    /\ Finish(t, attr_from_remote(strip_prefix_root(cb[t].path), cb[t].ino))
    /\ UNCHANGED mutex /\ UNCH_state /\ UNCH_files /\ UNCH_hist /\ NoFault

(***************************************************************************)
(* lookup.                                                                 *)
(***************************************************************************)
lookup(t, K) ==
    /\ pc[t] = "idle" /\ Initialized
    /\ \E a \in K.lookups :
         cb' = [cb EXCEPT ![t] = [IdleCb EXCEPT !.op = "lookup", !.ino = a[1], !.name = a[2]]]
    /\ Goto(t, "lookup_check")
    /\ UNCHANGED mutex /\ UNCH_state /\ UNCH_files /\ UNCH_hist /\ NoFault

\* if !self.path_for_inode(parent).is_some()
lookup_check(t) ==
    /\ pc[t] = "lookup_check" /\ CanResolve(cb[t].ino)
    /\ IF path_for_inode(cb[t].ino) = NoneOpt
       THEN Finish(t, Error("ENOENT"))
       ELSE Goto(t, "lookup_parent") /\ UNCHANGED cb
    /\ UNCHANGED mutex /\ UNCH_state /\ UNCH_files /\ UNCH_hist /\ NoFault

\* let parent_path = match self.path_for_inode(parent); parent_path.join(name)
lookup_parent(t) ==
    /\ pc[t] = "lookup_parent" /\ CanResolve(cb[t].ino)
    /\ LET parent_path == path_for_inode(cb[t].ino)
       IN  IF parent_path = NoneOpt
           THEN Finish(t, Error("ENOENT"))
           ELSE /\ Goto(t, "inode_for_path")
                /\ cb' = [cb EXCEPT ![t].path = join(parent_path[1], cb[t].name)]
    /\ UNCHANGED mutex /\ UNCH_state /\ UNCH_files /\ UNCH_hist /\ NoFault

\* inode_for_path up to the read of path_to_inode
inode_for_path(t) ==
    /\ pc[t] = "inode_for_path"
    /\ LET rel_path == strip_prefix_root(cb[t].path)
       IN  IF rel_path = RootPath
           THEN /\ Goto(t, "lookup_stat")
                /\ cb' = [cb EXCEPT ![t].child = ROOT_INODE]
                /\ UNCHANGED mutex
           ELSE /\ mutex = Free
                /\ UNCHANGED mutex
                /\ IF rel_path \in DOMAIN path_to_inode
                   THEN /\ Goto(t, "lookup_stat")
                        /\ cb' = [cb EXCEPT ![t].child = path_to_inode[rel_path]]
                   ELSE Goto(t, "inode_for_path_insert") /\ UNCHANGED cb
    /\ UNCH_state /\ UNCH_files /\ UNCH_hist /\ NoFault

\* variant: path_to_inode is keyed by the path as given, with its leading "/"
inode_for_path_insert_unstripped(t) ==
    /\ pc[t] = "inode_for_path_insert" /\ mutex = Free
    /\ LET rel_path == strip_prefix_root(cb[t].path)
           ino == Digest(rel_path.comps)
       IN  /\ path_to_inode' = Insert(path_to_inode, cb[t].path, ino)
           /\ inode_to_path' = Insert(inode_to_path, ino, rel_path)
           /\ cb' = [cb EXCEPT ![t].child = ino]
    /\ Goto(t, "lookup_stat")
    /\ UNCHANGED <<next_fh, open_files, mutex>> /\ UNCH_files /\ UNCH_hist /\ NoFault

\* inode_for_path from the digest to the two inserts
inode_for_path_insert(t) ==
    /\ pc[t] = "inode_for_path_insert" /\ mutex = Free
    /\ LET rel_path == strip_prefix_root(cb[t].path)
           ino == Digest(rel_path.comps)
       IN  /\ path_to_inode' = Insert(path_to_inode, rel_path, ino)
           /\ inode_to_path' = Insert(inode_to_path, ino, rel_path)
           /\ cb' = [cb EXCEPT ![t].child = ino]
    /\ Goto(t, "lookup_stat")
    /\ UNCHANGED <<next_fh, open_files, mutex>> /\ UNCH_files /\ UNCH_hist /\ NoFault

\* variant: the attributes carry the inode of the parent
lookup_stat_parent_ino(t) ==
    /\ pc[t] = "lookup_stat"
    /\ LET attr == attr_from_remote(strip_prefix_root(cb[t].path), cb[t].ino)
       IN  IF attr.kind = "attr"
           THEN Finish(t, Reply("entry", attr.val))
           ELSE Finish(t, Error("ENOENT"))
    /\ looked_up' = IF cb'[t].reply.kind = "entry" THEN looked_up \cup {cb[t].child}
                                                  ELSE looked_up
    /\ UNCHANGED <<mutex, issued, lastw, lastr, released, only_read>>
    /\ UNCH_state /\ UNCH_files /\ NoFault

\* attr_from_remote of the child, and the reply
lookup_stat(t) ==
    /\ pc[t] = "lookup_stat"
    /\ LET attr == attr_from_remote(strip_prefix_root(cb[t].path), cb[t].child)
       IN  IF attr.kind = "attr"
           THEN Finish(t, Reply("entry", attr.val))
           ELSE Finish(t, Error("ENOENT"))
    /\ looked_up' = IF cb'[t].reply.kind = "entry" THEN looked_up \cup {cb[t].child}
                                                  ELSE looked_up
    /\ UNCHANGED <<mutex, issued, lastw, lastr, released, only_read>>
    /\ UNCH_state /\ UNCH_files /\ NoFault

(***************************************************************************)
(* Local files.                                                            *)
(***************************************************************************)
\* the file objects that a directory entry, an open-file entry or a File of a running
\* callback refers to, in the state given
Live(lfs, files, at, cbs) ==
    {lfs[k] : k \in DOMAIN lfs} \cup {files[h].file.obj : h \in DOMAIN files}
      \cup {cbs[t].file.obj : t \in {u \in Threads : at[u] \notin {"idle", "done"}}}

\* a file object without a reference is gone
Collect(data, live) == [o \in DOMAIN data \cap live |-> data[o]]

\* the object a newly created file gets
NewObj == CHOOSE o \in 1..(Cardinality(DOMAIN file_data) + 1) : o \notin DOMAIN file_data

\* local_path.exists()
exists(local_path) == local_path \in DOMAIN local_fs

Prefixes(bytes) == {SubSeq(bytes, 1, n) : n \in 0..(Len(bytes) - 1)}

\* file.seek(SeekFrom::Start(offset)); file.write(data): the bytes afterwards,
\* the gap between the old end and offset zero-filled
write_at(bytes, offset, data) ==
    LET end == offset + Len(data)
        len == IF Len(bytes) > end THEN Len(bytes) ELSE end
    IN  [i \in 1..len |->
           IF i > offset /\ i <= end THEN data[i - offset]
           ELSE IF i <= Len(bytes) THEN bytes[i] ELSE 0]

\* file.seek(SeekFrom::Start(offset)); file.read(&mut buffer) with a buffer of size bytes
read_at(bytes, offset, size) ==
    IF offset >= Len(bytes) THEN <<>>
    ELSE SubSeq(bytes, offset + 1, IF offset + size > Len(bytes) THEN Len(bytes) ELSE offset + size)

\* x & !bit, bit a power of two
BitClear(x, bit) == x - ((x \div bit) % 2) * bit

\* local_flags &= !O_WRONLY; local_flags &= !O_RDWR; local_flags |= O_RDONLY
clear_write_flags(local_flags) == BitClear(BitClear(local_flags, O_WRONLY), O_RDWR)

(***************************************************************************)
(* open.                                                                   *)
(***************************************************************************)
open(t, K) ==
    /\ pc[t] = "idle" /\ Initialized
    /\ next_fh <= K.handles
    /\ \E ino \in K.inodes, flags \in K.flags :
         cb' = [cb EXCEPT ![t] = [IdleCb EXCEPT !.op = "open", !.ino = ino, !.flags = flags]]
    /\ Goto(t, "open_check")
    /\ UNCHANGED mutex /\ UNCH_state /\ UNCH_files /\ UNCH_hist /\ NoFault

\* if !self.path_for_inode(_ino).is_some()
open_check(t) ==
    /\ pc[t] = "open_check" /\ CanResolve(cb[t].ino)
    /\ IF path_for_inode(cb[t].ino) = NoneOpt
       THEN Finish(t, Error("ENOENT"))
       ELSE Goto(t, "open_path") /\ UNCHANGED cb
    /\ UNCHANGED mutex /\ UNCH_state /\ UNCH_files /\ UNCH_hist /\ NoFault

\* let Some(path) = self.path_for_inode(_ino); the leading "/" is stripped
open_path(t) ==
    /\ pc[t] = "open_path" /\ CanResolve(cb[t].ino)
    /\ LET path == path_for_inode(cb[t].ino)
       IN  IF path = NoneOpt
           THEN Finish(t, Error("ENOENT"))
           ELSE /\ Goto(t, "open_exists")
                /\ cb' = [cb EXCEPT ![t].path = strip_prefix_root(path[1])]
    /\ UNCHANGED mutex /\ UNCH_state /\ UNCH_files /\ UNCH_hist /\ NoFault

\* if !local_path.exists()
open_exists(t) ==
    /\ pc[t] = "open_exists"
    /\ IF ~exists(get_local_abs_path(cb[t].path))
       THEN Goto(t, "fetch_remote_open")
       ELSE Goto(t, "open_hit_check")
    /\ UNCHANGED <<mutex, cb>> /\ UNCH_state /\ UNCH_files /\ UNCH_hist /\ NoFault

\* variant: the handle identifier is taken before the fetch
fetch_remote_open_takes_fh(t, K) ==
    /\ pc[t] = "fetch_remote_open"
    /\ \/ /\ get_remote_abs_path(cb[t].path) \in DOMAIN remote
          /\ Goto(t, "fetch_local_open") /\ UNCHANGED cb /\ NoFault
       \/ /\ get_remote_abs_path(cb[t].path) \notin DOMAIN remote
          /\ Finish(t, Error("ENOENT")) /\ NoFault
       \/ Finish(t, Error("ENOENT")) /\ Fault(K)
    /\ next_fh' = next_fh + 1
    /\ UNCHANGED <<mutex, inode_to_path, path_to_inode, open_files>> /\ UNCH_files /\ UNCH_hist

\* fetch_file_from_remote: self.sftp.open(&remote_path)
fetch_remote_open(t, K) ==
    /\ pc[t] = "fetch_remote_open"
    /\ \/ /\ get_remote_abs_path(cb[t].path) \in DOMAIN remote
          /\ Goto(t, "fetch_local_open") /\ UNCHANGED cb /\ NoFault
       \/ /\ get_remote_abs_path(cb[t].path) \notin DOMAIN remote
          /\ Finish(t, Error("ENOENT")) /\ NoFault
       \/ Finish(t, Error("ENOENT")) /\ Fault(K)
    /\ UNCHANGED mutex /\ UNCH_state /\ UNCH_files /\ UNCH_hist

\* fetch_file_from_remote: OpenOptions create, write, truncate on the local path
fetch_local_open(t, K) ==
    /\ pc[t] = "fetch_local_open"
    /\ LET local_path == get_local_abs_path(cb[t].path)
       IN  \/ /\ exists(local_path)
              /\ file_data' = [file_data EXCEPT ![local_fs[local_path]] = <<>>]
              /\ cb' = [cb EXCEPT ![t].file = File(local_fs[local_path], FALSE, TRUE)]
              /\ Goto(t, "fetch_copy")
              /\ UNCHANGED local_fs /\ NoFault
           \/ /\ ~exists(local_path)
              /\ file_data' = Insert(file_data, NewObj, <<>>)
              /\ local_fs' = Insert(local_fs, local_path, NewObj)
              /\ cb' = [cb EXCEPT ![t].file = File(NewObj, FALSE, TRUE)]
              /\ Goto(t, "fetch_copy") /\ NoFault
           \/ /\ Finish(t, Error("EIO")) /\ Fault(K)
              /\ UNCHANGED <<local_fs, file_data>>
    /\ UNCHANGED <<mutex, remote>> /\ UNCH_state /\ UNCH_hist

\* fetch_file_from_remote: std::io::copy and flush
fetch_copy(t, K) ==
    /\ pc[t] = "fetch_copy"
    /\ LET bytes == remote[get_remote_abs_path(cb[t].path)]
           obj == cb[t].file.obj
       IN  \/ /\ file_data' = [file_data EXCEPT ![obj] = bytes]
              /\ Goto(t, "open_insert_new") /\ UNCHANGED cb /\ NoFault
           \/ \E part \in Prefixes(bytes) :
                /\ Finish(t, Error("EIO")) /\ Fault(K)
                /\ file_data' = Collect([file_data EXCEPT ![obj] = part],
                                        Live(local_fs, open_files, pc', cb'))
    /\ UNCHANGED <<mutex, local_fs, remote>> /\ UNCH_state /\ UNCH_hist

\* variant: st.next_fh is not advanced
insert_entry_same_fh(t) ==
    /\ mutex = Free
    /\ open_files' = Insert(open_files, next_fh,
                            OpenEntry(cb[t].file, cb[t].ino, cb[t].flags, FALSE))
    /\ next_fh' = next_fh
    /\ issued' = Append(issued, next_fh)
    /\ Finish(t, Reply("opened", [fh |-> next_fh, flags |-> cb[t].flags]))
    /\ UNCHANGED <<inode_to_path, path_to_inode, mutex, lastw, lastr, released, looked_up,
                   only_read>>
    /\ UNCH_files /\ NoFault

\* _fh = st.next_fh; st.open_files.insert(_fh, open_entry); st.next_fh += 1; reply.opened
insert_entry(t) ==
    /\ mutex = Free
    /\ open_files' = Insert(open_files, next_fh,
                            OpenEntry(cb[t].file, cb[t].ino, cb[t].flags, FALSE))
    /\ next_fh' = next_fh + 1
    /\ issued' = Append(issued, next_fh)
    /\ Finish(t, Reply("opened", [fh |-> next_fh, flags |-> cb[t].flags]))
    /\ UNCHANGED <<inode_to_path, path_to_inode, mutex, lastw, lastr, released, looked_up,
                   only_read>>
    /\ UNCH_files /\ NoFault

open_insert_new(t) ==
    /\ pc[t] = "open_insert_new"
    /\ insert_entry(t)

\* the entry whose dirty flag the hit path of open consults: st.open_files.get(&_ino)
existing_entry(ino) ==
    IF ino \in DOMAIN open_files THEN Some(open_files[ino]) ELSE NoneOpt

\* the access mode of the hit path
open_hit_check(t) ==
    /\ pc[t] = "open_hit_check" /\ mutex = Free
    /\ LET accmode == cb[t].flags % (O_ACCMODE + 1)
           requested == accmode = O_WRONLY \/ accmode = O_RDWR
           entry == existing_entry(cb[t].ino)
           write_access == IF entry # NoneOpt /\ entry[1].dirty THEN FALSE ELSE requested
       IN  cb' = [cb EXCEPT ![t].write_access = write_access,
                            ![t].flags = IF write_access THEN @ ELSE clear_write_flags(@)]
    /\ Goto(t, "open_hit_open")
    /\ UNCHANGED mutex /\ UNCH_state /\ UNCH_files /\ UNCH_hist /\ NoFault

\* OpenOptions::new().read(true).write(write_access).open(&local_path)
open_hit_open(t, K) ==
    /\ pc[t] = "open_hit_open"
    /\ LET local_path == get_local_abs_path(cb[t].path)
       IN  \/ /\ exists(local_path)
              /\ cb' = [cb EXCEPT ![t].file = File(local_fs[local_path], TRUE, cb[t].write_access)]
              /\ Goto(t, "open_insert_hit") /\ NoFault
           \/ /\ ~exists(local_path)
              /\ Finish(t, Error("EIO")) /\ NoFault
           \/ Finish(t, Error("EIO")) /\ Fault(K)
    /\ UNCHANGED mutex /\ UNCH_state /\ UNCH_files /\ UNCH_hist

open_insert_hit(t) ==
    /\ pc[t] = "open_insert_hit"
    /\ insert_entry(t)

(***************************************************************************)
(* write.                                                                  *)
(***************************************************************************)
Handles(K) == 1..K.handles

write(t, K) ==
    /\ pc[t] = "idle" /\ Initialized
    /\ \E fh \in Handles(K), offset \in 0..(MaxLen - 1), data \in WriteData :
         /\ ~Busy(fh)
         /\ offset + Len(data) <= MaxLen
         /\ cb' = [cb EXCEPT ![t] = [IdleCb EXCEPT !.op = "write", !.fh = fh,
                                       !.offset = offset, !.data = data]]
    /\ Goto(t, "write_lock")
    /\ UNCHANGED mutex /\ UNCH_state /\ UNCH_files /\ UNCH_hist /\ NoFault

\* the access mode recorded in the entry allows writing
\* variant: only read-write counts as write-capable
write_capable_rdwr_only(flags) ==
    LET accmode == flags % (O_ACCMODE + 1)
    IN  accmode = O_RDWR

write_capable(flags) ==
    LET accmode == flags % (O_ACCMODE + 1)
    IN  accmode = O_WRONLY \/ accmode = O_RDWR

\* let mut st = self.st.lock(); the entry and its access mode are checked; the
\* guard lives to the end of the function
write_lock(t) ==
    /\ pc[t] = "write_lock" /\ mutex = Free
    /\ IF cb[t].fh \notin DOMAIN open_files
       THEN Finish(t, Error("EINVAL")) /\ UNCHANGED mutex
       ELSE IF ~write_capable(open_files[cb[t].fh].flags)
       THEN Finish(t, Error("EACCES")) /\ UNCHANGED mutex
       ELSE /\ mutex' = t
            /\ Goto(t, "write_io") /\ UNCHANGED cb
    /\ UNCH_state /\ UNCH_files /\ UNCH_hist /\ NoFault

\* open_entry.file.seek, open_entry.file.write, open_entry.dirty = true
write_io(t, K) ==
    /\ pc[t] = "write_io"
    /\ LET fh == cb[t].fh
           file == open_files[fh].file
       IN  \/ /\ file.w
              /\ file_data' = [file_data EXCEPT
                                 ![file.obj] = write_at(@, cb[t].offset, cb[t].data)]
              /\ open_files' = [open_files EXCEPT ![fh].dirty = TRUE]
              /\ lastw' = [fh |-> fh, offset |-> cb[t].offset, data |-> cb[t].data]
              /\ Finish(t, Reply("written", Len(cb[t].data))) /\ NoFault
           \/ /\ ~file.w
              /\ Finish(t, Error("EIO")) /\ NoFault
              /\ UNCHANGED <<file_data, open_files, lastw>>
           \/ /\ Finish(t, Error("EIO")) /\ Fault(K)
              /\ UNCHANGED <<file_data, open_files, lastw>>
    /\ mutex' = Free
    /\ UNCHANGED <<inode_to_path, path_to_inode, next_fh, local_fs, remote, issued,
                   lastr, released, looked_up, only_read>>

(***************************************************************************)
(* read.                                                                   *)
(***************************************************************************)
read(t, K) ==
    /\ pc[t] = "idle" /\ Initialized
    /\ \E fh \in Handles(K), offset \in 0..(MaxLen - 1), size \in ReadSizes :
         /\ ~Busy(fh)
         /\ cb' = [cb EXCEPT ![t] = [IdleCb EXCEPT !.op = "read", !.fh = fh,
                                       !.offset = offset, !.size = size]]
    /\ Goto(t, "read_lock")
    /\ UNCHANGED mutex /\ UNCH_state /\ UNCH_files /\ UNCH_hist /\ NoFault

\* entry.file.try_clone() under the lock
read_lock(t) ==
    /\ pc[t] = "read_lock" /\ mutex = Free
    /\ IF cb[t].fh \notin DOMAIN open_files
       THEN Finish(t, Error("EINVAL"))
       ELSE /\ cb' = [cb EXCEPT ![t].file = open_files[cb[t].fh].file]
            /\ Goto(t, "read_io")
    /\ UNCHANGED mutex /\ UNCH_state /\ UNCH_files /\ UNCH_hist /\ NoFault

\* file.seek and file.read on the duplicate of the descriptor
read_io(t, K) ==
    /\ pc[t] = "read_io"
    /\ \/ /\ cb[t].file.r
          /\ Finish(t, Reply("data", read_at(file_data[cb[t].file.obj], cb[t].offset, cb[t].size)))
          /\ NoFault
       \/ /\ ~cb[t].file.r
          /\ Finish(t, Error("EIO")) /\ NoFault
       \/ Finish(t, Error("EIO")) /\ Fault(K)
    /\ lastr' = IF cb'[t].reply.kind = "data" THEN cb[t].fh ELSE lastr
    /\ UNCHANGED <<mutex, issued, lastw, released, looked_up, only_read>>
    /\ UNCH_state /\ UNCH_files

(***************************************************************************)
(* The upload of flush and release.                                        *)
(***************************************************************************)
\* copy_from_local_to_remote: the remote files it can leave and whether it succeeded.
\* A failure before the remote file is opened changes nothing; the open truncates
\* the remote file; write_all may fail after a part of the buffer
\* variant: the remote file is opened for appending, not truncated
copy_from_local_to_remote_append(local_file, remote_path) ==
    LET buffer == file_data[local_file.obj]
        old == IF remote_path \in DOMAIN remote THEN remote[remote_path] ELSE << >>
    IN  {[ok |-> TRUE, remote |-> Insert(remote, remote_path, old \o buffer)],
         [ok |-> FALSE, remote |-> remote]}

copy_from_local_to_remote(local_file, remote_path) ==
    LET buffer == file_data[local_file.obj]
    IN  {[ok |-> TRUE, remote |-> Insert(remote, remote_path, buffer)],
         [ok |-> FALSE, remote |-> remote]}
        \cup {[ok |-> FALSE, remote |-> Insert(remote, remote_path, part)] :
                part \in Prefixes(buffer)}

\* variant: a handle that is not in the table counts as clean
snapshot_unknown_is_clean(t, next) ==
    /\ mutex = Free
    /\ IF cb[t].fh \notin DOMAIN open_files
       THEN Finish(t, Reply("ok", None))
       ELSE /\ cb' = [cb EXCEPT ![t].is_dirty = open_files[cb[t].fh].dirty,
                                ![t].entry_ino = open_files[cb[t].fh].ino]
            /\ Goto(t, next)

\* the snapshot (entry.dirty, entry.ino) of flush and release
snapshot(t, next) ==
    /\ mutex = Free
    /\ IF cb[t].fh \notin DOMAIN open_files
       THEN Finish(t, Error("EINVAL"))
       ELSE /\ cb' = [cb EXCEPT ![t].is_dirty = open_files[cb[t].fh].dirty,
                                ![t].entry_ino = open_files[cb[t].fh].ino]
            /\ Goto(t, next)

\* OpenOptions::new().read(true).open(&local_path)
local_open_read(t, K, next) ==
    LET local_path == get_local_abs_path(cb[t].path)
    IN  \/ /\ exists(local_path)
           /\ cb' = [cb EXCEPT ![t].file = File(local_fs[local_path], TRUE, FALSE)]
           /\ Goto(t, next) /\ NoFault
        \/ /\ ~exists(local_path)
           /\ Finish(t, Error("EIO")) /\ NoFault
        \/ Finish(t, Error("EIO")) /\ Fault(K)

(***************************************************************************)
(* flush.                                                                  *)
(***************************************************************************)
flush(t, K) ==
    /\ pc[t] = "idle" /\ Initialized
    /\ \E fh \in Handles(K) :
         /\ ~Busy(fh)
         /\ cb' = [cb EXCEPT ![t] = [IdleCb EXCEPT !.op = "flush", !.fh = fh]]
    /\ Goto(t, "flush_snapshot")
    /\ UNCHANGED mutex /\ UNCH_state /\ UNCH_files /\ UNCH_hist /\ NoFault

flush_snapshot(t) ==
    /\ pc[t] = "flush_snapshot"
    /\ snapshot(t, "flush_dirty")
    /\ UNCHANGED mutex /\ UNCH_state /\ UNCH_files /\ UNCH_hist /\ NoFault

\* if !is_dirty { reply.ok(); return; }
flush_dirty(t) ==
    /\ pc[t] = "flush_dirty"
    /\ IF ~cb[t].is_dirty
       THEN Finish(t, Reply("ok", None))
       ELSE Goto(t, "flush_path") /\ UNCHANGED cb
    /\ UNCHANGED mutex /\ UNCH_state /\ UNCH_files /\ UNCH_hist /\ NoFault

flush_path(t) ==
    /\ pc[t] = "flush_path" /\ CanResolve(cb[t].entry_ino)
    /\ LET path == path_for_inode(cb[t].entry_ino)
       IN  IF path = NoneOpt
           THEN Finish(t, Error("ENOENT"))
           ELSE /\ cb' = [cb EXCEPT ![t].path = strip_prefix_root(path[1])]
                /\ Goto(t, "flush_local_open")
    /\ UNCHANGED mutex /\ UNCH_state /\ UNCH_files /\ UNCH_hist /\ NoFault

flush_local_open(t, K) ==
    /\ pc[t] = "flush_local_open"
    /\ local_open_read(t, K, "flush_upload")
    /\ UNCHANGED mutex /\ UNCH_state /\ UNCH_files /\ UNCH_hist

\* variant: the result of the upload is not looked at
flush_upload_ignores_error(t, K) ==
    /\ pc[t] = "flush_upload"
    /\ \E res \in copy_from_local_to_remote(cb[t].file, get_remote_abs_path(cb[t].path)) :
         /\ remote' = res.remote
         /\ Goto(t, "flush_clear") /\ UNCHANGED cb
         /\ IF res.ok THEN NoFault ELSE Fault(K)
    /\ file_data' = Collect(file_data, Live(local_fs, open_files, pc', cb'))
    /\ UNCHANGED <<mutex, local_fs>> /\ UNCH_state /\ UNCH_hist

flush_upload(t, K) ==
    /\ pc[t] = "flush_upload"
    /\ \E res \in copy_from_local_to_remote(cb[t].file, get_remote_abs_path(cb[t].path)) :
         /\ remote' = res.remote
         /\ IF res.ok
            THEN Goto(t, "flush_clear") /\ UNCHANGED cb /\ NoFault
            ELSE Finish(t, Error("EIO")) /\ Fault(K)
    /\ file_data' = Collect(file_data, Live(local_fs, open_files, pc', cb'))
    /\ UNCHANGED <<mutex, local_fs>> /\ UNCH_state /\ UNCH_hist

\* variant: every entry of the flushed inode is marked clean
flush_clear_whole_inode(t) ==
    /\ pc[t] = "flush_clear" /\ mutex = Free
    /\ open_files' = [h \in DOMAIN open_files |->
                        IF open_files[h].ino = cb[t].entry_ino
                        THEN [open_files[h] EXCEPT !.dirty = FALSE]
                        ELSE open_files[h]]
    /\ Finish(t, Reply("ok", None))
    /\ file_data' = Collect(file_data, Live(local_fs, open_files', pc', cb'))
    /\ UNCHANGED <<inode_to_path, path_to_inode, next_fh, mutex, local_fs, remote>> /\ UNCH_hist /\ NoFault

\* entry.dirty = false after the upload, and reply.ok()
flush_clear(t) ==
    /\ pc[t] = "flush_clear" /\ mutex = Free
    /\ open_files' = IF cb[t].fh \in DOMAIN open_files
                     THEN [open_files EXCEPT ![cb[t].fh].dirty = FALSE]
                     ELSE open_files
    /\ Finish(t, Reply("ok", None))
    /\ file_data' = Collect(file_data, Live(local_fs, open_files', pc', cb'))
    /\ UNCHANGED <<inode_to_path, path_to_inode, next_fh, mutex, local_fs, remote>> /\ UNCH_hist /\ NoFault

(***************************************************************************)
(* release.                                                                *)
(***************************************************************************)
\* the inode the kernel passes with a handle is the one the handle was opened on
release(t, K) ==
    /\ pc[t] = "idle" /\ Initialized
    /\ \E fh \in Handles(K) :
         /\ ~Busy(fh)
         /\ LET ino == IF fh \in DOMAIN open_files THEN open_files[fh].ino ELSE ROOT_INODE IN
            cb' = [cb EXCEPT ![t] = [IdleCb EXCEPT !.op = "release", !.fh = fh, !.ino = ino]]
    /\ Goto(t, "release_snapshot")
    /\ UNCHANGED mutex /\ UNCH_state /\ UNCH_files /\ UNCH_hist /\ NoFault

release_snapshot(t) ==
    /\ pc[t] = "release_snapshot"
    /\ snapshot(t, "release_path")
    /\ UNCHANGED mutex /\ UNCH_state /\ UNCH_files /\ UNCH_hist /\ NoFault

\* variant: release does not look at the dirty bit and never uploads
release_path_no_upload(t) ==
    /\ pc[t] = "release_path" /\ CanResolve(cb[t].entry_ino)
    /\ LET path == path_for_inode(cb[t].entry_ino)
       IN  IF path = NoneOpt
           THEN Finish(t, Error("ENOENT"))
           ELSE /\ cb' = [cb EXCEPT ![t].path = strip_prefix_root(path[1])]
                /\ Goto(t, "release_remove")
    /\ UNCHANGED mutex /\ UNCH_state /\ UNCH_files /\ UNCH_hist /\ NoFault

release_path(t) ==
    /\ pc[t] = "release_path" /\ CanResolve(cb[t].entry_ino)
    /\ LET path == path_for_inode(cb[t].entry_ino)
       IN  IF path = NoneOpt
           THEN Finish(t, Error("ENOENT"))
           ELSE /\ cb' = [cb EXCEPT ![t].path = strip_prefix_root(path[1])]
                /\ IF cb[t].is_dirty
                   THEN Goto(t, "release_local_open")
                   ELSE Goto(t, "release_remove")
    /\ UNCHANGED mutex /\ UNCH_state /\ UNCH_files /\ UNCH_hist /\ NoFault

release_local_open(t, K) ==
    /\ pc[t] = "release_local_open"
    /\ local_open_read(t, K, "release_upload")
    /\ UNCHANGED mutex /\ UNCH_state /\ UNCH_files /\ UNCH_hist

release_upload(t, K) ==
    /\ pc[t] = "release_upload"
    /\ \E res \in copy_from_local_to_remote(cb[t].file, get_remote_abs_path(cb[t].path)) :
         /\ remote' = res.remote
         /\ IF res.ok
            THEN Goto(t, "release_remove") /\ UNCHANGED cb /\ NoFault
            ELSE Finish(t, Error("EIO")) /\ Fault(K)
    /\ file_data' = Collect(file_data, Live(local_fs, open_files, pc', cb'))
    /\ UNCHANGED <<mutex, local_fs>> /\ UNCH_state /\ UNCH_hist

\* st.open_files.values().any(|entry| entry.ino == entry_ino), on the table given
still_open(files, entry_ino) == \E h \in DOMAIN files : files[h].ino = entry_ino

\* the histories of a handle end with its release
forget_handle(fh) ==
    /\ lastw' = IF lastw.fh = fh THEN NoWrite ELSE lastw
    /\ lastr' = IF lastr = fh THEN 0 ELSE lastr

\* the released handle of thread t was read with success and not written
OnlyRead(t) == lastr = cb[t].fh /\ lastw.fh # cb[t].fh /\ ~cb[t].is_dirty

\* variant: only inode_to_path forgets the file
release_remove_one_map(t) ==
    /\ pc[t] = "release_remove" /\ mutex = Free
    /\ open_files' = Remove(open_files, cb[t].fh)
    /\ IF still_open(open_files', cb[t].entry_ino)
       THEN /\ Finish(t, Reply("ok", None))
            /\ forget_handle(cb[t].fh)
            /\ UNCHANGED <<inode_to_path, path_to_inode>>
       ELSE /\ inode_to_path' = Remove(inode_to_path, cb[t].ino)
            /\ UNCHANGED <<path_to_inode, lastw, lastr>>
            /\ Goto(t, "release_evict") /\ UNCHANGED cb
    /\ file_data' = Collect(file_data, Live(local_fs, open_files', pc', cb'))
    /\ UNCHANGED <<next_fh, mutex, issued, local_fs, remote, released, looked_up, only_read>>
    /\ NoFault

\* st.open_files.remove(&_fh); the mappings go when no entry has the inode
release_remove(t) ==
    /\ pc[t] = "release_remove" /\ mutex = Free
    /\ open_files' = Remove(open_files, cb[t].fh)
    /\ IF still_open(open_files', cb[t].entry_ino)
       THEN /\ Finish(t, Reply("ok", None))
            /\ forget_handle(cb[t].fh)
            /\ UNCHANGED <<inode_to_path, path_to_inode>>
       ELSE /\ inode_to_path' = Remove(inode_to_path, cb[t].ino)
            /\ path_to_inode' = Remove(path_to_inode, cb[t].path)
            /\ Goto(t, "release_evict") /\ UNCHANGED <<cb, lastw, lastr>>
    /\ file_data' = Collect(file_data, Live(local_fs, open_files', pc', cb'))
    /\ UNCHANGED <<next_fh, mutex, issued, local_fs, remote, released, looked_up, only_read>>
    /\ NoFault

\* variant: the staged file is left in the cache directory
release_evict_keeps_file(t, K) ==
    /\ pc[t] = "release_evict"
    /\ Finish(t, Reply("ok", None))
    /\ file_data' = Collect(file_data, Live(local_fs, open_files, pc', cb'))
    /\ released' = Insert(released, cb[t].path, FALSE)
    /\ only_read' = IF OnlyRead(t) THEN only_read \cup {cb[t].path} ELSE only_read \ {cb[t].path}
    /\ forget_handle(cb[t].fh)
    /\ UNCHANGED <<mutex, local_fs, remote, issued, looked_up>> /\ UNCH_state /\ NoFault

\* if local_path.exists() { fs::remove_file(&local_path) }: a failure is only logged
release_evict(t, K) ==
    /\ pc[t] = "release_evict"
    /\ LET local_path == get_local_abs_path(cb[t].path)
       IN  \/ /\ exists(local_path)
              /\ local_fs' = Remove(local_fs, local_path) /\ NoFault
           \/ /\ ~exists(local_path)
              /\ UNCHANGED local_fs /\ NoFault
           \/ /\ exists(local_path)
              /\ UNCHANGED local_fs /\ Fault(K)
    /\ Finish(t, Reply("ok", None))
    /\ file_data' = Collect(file_data, Live(local_fs', open_files, pc', cb'))
    /\ released' = Insert(released, cb[t].path, faults' # faults)
    /\ only_read' = IF OnlyRead(t) THEN only_read \cup {cb[t].path} ELSE only_read \ {cb[t].path}
    /\ forget_handle(cb[t].fh)
    /\ UNCHANGED <<mutex, remote, issued, looked_up>> /\ UNCH_state

\* the callback has returned: the thread takes the next request
return(t) ==
    /\ pc[t] = "done"
    /\ pc' = [pc EXCEPT ![t] = "idle"]
    /\ cb' = [cb EXCEPT ![t] = IdleCb]
    /\ released' = IF cb[t].op = "open" THEN Remove(released, cb[t].path) ELSE released
    /\ only_read' = IF cb[t].op = "open" THEN only_read \ {cb[t].path} ELSE only_read
    /\ UNCHANGED <<mutex, issued, lastw, lastr, looked_up>> /\ UNCH_state /\ UNCH_files /\ NoFault

(***************************************************************************)
(* attr_from_remote over any remote object and any stat reply.             *)
(***************************************************************************)
\* a remote object: whether it is a directory, its size and its mode
RemoteObject(dir, size, mode) == [dir |-> dir, size |-> size, mode |-> mode]
RemoteObjects ==
    {RemoteObject(TRUE, 4096, S_IFDIR + m) : m \in {DirPerm, 448}}
      \cup {RemoteObject(FALSE, n, S_IFREG + m) : n \in {0, 1}, m \in {FilePerm, 384}}
AttrInodes == {ROOT_INODE, Digest(<<"a">>)}

\* the reply of the server to a stat of object o, with the attributes it sends
stat_reply(o, sends) ==
    FileStat(IF sends.size THEN Some(o.size) ELSE NoneOpt,
             IF sends.perm THEN Some(o.mode) ELSE NoneOpt)

\* a call of attr_from_remote(rel, ino), rel the path of a remote object
attr_call(t) ==
    /\ pc[t] = "idle"
    /\ \E o \in RemoteObjects, ino \in AttrInodes, size \in BOOLEAN, perm \in BOOLEAN :
         cb' = [cb EXCEPT ![t] = [op |-> "attr_from_remote", ino |-> ino, object |-> o,
                                   sends |-> [size |-> size, perm |-> perm],
                                   stat |-> NoneOpt, reply |-> NoReply]]
    /\ Goto(t, "attr_stat")
    /\ UNCHANGED mutex /\ UNCH_state /\ UNCH_files /\ UNCH_hist /\ NoFault

\* let stat = self.sftp.stat(&full_path).map_err(|_| ENOENT)?
attr_stat(t) ==
    /\ pc[t] = "attr_stat"
    /\ \/ /\ cb' = [cb EXCEPT ![t].stat = Some(stat_reply(cb[t].object, cb[t].sends))]
          /\ Goto(t, "attr_is_dir")
       \/ Finish(t, Error("ENOENT"))
    /\ UNCHANGED mutex /\ UNCH_state /\ UNCH_files /\ UNCH_hist /\ NoFault

\* let is_dir = self.is_remote_dir(&full_path), which stats the path once more and
\* takes a failure for "not a directory"; then the FileAttr
attr_is_dir(t) ==
    /\ pc[t] = "attr_is_dir"
    /\ \E metadata \in {Some(stat_reply(cb[t].object, cb[t].sends)), NoneOpt} :
         LET is_dir == IF metadata = NoneOpt THEN FALSE ELSE is_dir_of(metadata[1])
         IN  Finish(t, Reply("attr", FileAttr(cb[t].stat[1], is_dir, cb[t].ino)))
    /\ UNCHANGED mutex /\ UNCH_state /\ UNCH_files /\ UNCH_hist /\ NoFault

(***************************************************************************)
(* Specifications.                                                         *)
(***************************************************************************)
Step(t, K) ==
    \/ init(t)
    \/ getattr(t, K) \/ getattr_path(t) \/ getattr_stat(t)
    \/ lookup(t, K) \/ lookup_check(t) \/ lookup_parent(t)
    \/ inode_for_path(t) \/ inode_for_path_insert(t) \/ lookup_stat(t)
    \/ open(t, K) \/ open_check(t) \/ open_path(t) \/ open_exists(t)
    \/ fetch_remote_open(t, K) \/ fetch_local_open(t, K) \/ fetch_copy(t, K) \/ open_insert_new(t)
    \/ open_hit_check(t) \/ open_hit_open(t, K) \/ open_insert_hit(t)
    \/ write(t, K) \/ write_lock(t) \/ write_io(t, K)
    \/ read(t, K) \/ read_lock(t) \/ read_io(t, K)
    \/ flush(t, K) \/ flush_snapshot(t) \/ flush_dirty(t) \/ flush_path(t)
    \/ flush_local_open(t, K) \/ flush_upload(t, K) \/ flush_clear(t)
    \/ release(t, K) \/ release_snapshot(t) \/ release_path(t) \/ release_local_open(t, K)
    \/ release_upload(t, K) \/ release_remove(t) \/ release_evict(t, K)
    \/ return(t)

\* the scheduling that the mutex of `st` is written for: callbacks run by several
\* threads and interleaved at their steps; the requests are those on the file "a"
Next == \E t \in Threads : Step(t, OneFile)

Spec == Init /\ [][Next]_vars

\* the scheduling of fuser::mount2 as main calls it: one callback at a time
SeqNext == Step("t1", AllRequests)

SeqSpec == Init /\ [][SeqNext]_vars

\* one callback at a time on the files "a" and "b", over a cache directory that an
\* earlier run may have left a staged file in
CacheNext == Step("t1", TwoFiles)

CacheSpec == CacheInit /\ [][CacheNext]_vars

\* one callback at a time, the kernel also looking up the root path under the root
RootNext == Step("t1", RootLookups)

RootSpec == Init /\ [][RootNext]_vars

\* calls of attr_from_remote, one at a time
AttrNext == attr_call("t1") \/ attr_stat("t1") \/ attr_is_dir("t1") \/ return("t1")

AttrSpec == Init /\ [][AttrNext]_vars

(***************************************************************************)
(* Properties.                                                             *)
(***************************************************************************)
Replied(t, op, kind) == pc[t] = "done" /\ cb[t].op = op /\ cb[t].reply.kind = kind

\* the staged file of an inode, as a local path
StagedPath(ino) == get_local_abs_path(strip_prefix_root(inode_to_path[ino]))

\* another entry of the same inode is dirty
DirtySibling(fh, ino) ==
    \E h \in DOMAIN open_files \ {fh} : open_files[h].ino = ino /\ open_files[h].dirty

\* an open that took the hit path: its File was opened for reading
HitOpen(t) == Replied(t, "open", "opened") /\ cb[t].file.r

\* C1: an open on the hit path, made while another entry of the same inode is dirty,
\* returns a handle whose effective access mode is read-only.
C1_DirtyOpenIsReadOnly ==
    \A t \in Threads :
      (HitOpen(t) /\ DirtySibling(cb[t].reply.val.fh, cb[t].ino))
        => /\ ~write_capable(cb[t].reply.val.flags)
           /\ ~write_capable(open_files[cb[t].reply.val.fh].flags)

\* C2: a dirty handle leaves the open-file table only in a release that has uploaded:
\* at that step the remote file holds the bytes of the staged file, which is the file
\* the handle wrote to.
C2_DirtyReleaseUploads ==
    [][\A h \in DOMAIN open_files :
         (h \notin DOMAIN open_files' /\ open_files[h].dirty)
           => \E t \in Threads :
                /\ pc[t] = "release_remove" /\ cb[t].fh = h /\ cb[t].is_dirty
                /\ get_remote_abs_path(cb[t].path) \in DOMAIN remote
                /\ exists(get_local_abs_path(cb[t].path))
                /\ local_fs[get_local_abs_path(cb[t].path)] = open_files[h].file.obj
                /\ remote[get_remote_abs_path(cb[t].path)] = file_data[open_files[h].file.obj]]_vars

C2_Witness ==
    \E t \in Threads : Replied(t, "release", "ok") /\ cb[t].is_dirty

\* the upload of flush or release has just failed in thread t
UploadFails(t) ==
    /\ pc[t] \in {"flush_upload", "release_upload"}
    /\ pc'[t] = "done" /\ cb'[t].reply.kind = "error"

\* C3: a failed upload in flush or release replies an error and keeps the handle in
\* the table, dirty, with the staged files and the registry as they were; a flush
\* whose upload succeeds leaves the remote file equal to the staged file and the
\* handle clean.
C3_UploadFailureKeepsDirtyData ==
    [][\A t \in Threads :
         /\ UploadFails(t) =>
              /\ cb[t].fh \in DOMAIN open_files' /\ open_files'[cb[t].fh].dirty
              /\ open_files' = open_files
              /\ local_fs' = local_fs /\ file_data' = file_data
              /\ inode_to_path' = inode_to_path /\ path_to_inode' = path_to_inode
              /\ cb[t].entry_ino \in DOMAIN inode_to_path'
              /\ exists(StagedPath(cb[t].entry_ino))
         /\ (pc[t] = "flush_clear" /\ pc'[t] = "done") =>
              /\ cb'[t].reply.kind = "ok"
              /\ ~open_files'[cb[t].fh].dirty
              /\ remote'[get_remote_abs_path(cb[t].path)] = file_data'[open_files'[cb[t].fh].file.obj]]_vars

\* an upload has failed: the callback replied EIO after it opened the staged file
C3_Witness ==
    \E t \in Threads :
      /\ pc[t] = "done" /\ cb[t].op \in {"flush", "release"}
      /\ cb[t].reply.kind = "error" /\ cb[t].file.obj # 0
      /\ cb[t].fh \in DOMAIN open_files /\ open_files[cb[t].fh].dirty

\* C4: the owning inode of every open-file entry resolves to a path, and the staged
\* file of that path exists.
C4_EntriesHaveMappingAndFile ==
    \A h \in DOMAIN open_files :
      /\ open_files[h].ino \in DOMAIN inode_to_path
      /\ exists(StagedPath(open_files[h].ino))

\* C5: after a successful release of the last handle of an inode the registry has
\* no mapping for the inode or its path, and no staged file exists for the path.
C5_LastReleaseForgets ==
    \A t \in Threads :
      (Replied(t, "release", "ok") /\ ~still_open(open_files, cb[t].entry_ino))
        => /\ cb[t].entry_ino \notin DOMAIN inode_to_path
           /\ cb[t].path \notin DOMAIN path_to_inode
           /\ ~exists(get_local_abs_path(cb[t].path))

\* C5 as amended: the mappings are gone, and the staged file is gone unless
\* fs::remove_file failed.
C5_LastReleaseForgetsUnlessEvictFails ==
    [][\A t \in Threads :
         (pc[t] = "release_evict" /\ pc'[t] = "done")
           => /\ cb'[t].reply.kind = "ok"
              /\ ~still_open(open_files', cb[t].entry_ino)
              /\ cb[t].entry_ino \notin DOMAIN inode_to_path'
              /\ cb[t].path \notin DOMAIN path_to_inode'
              /\ \/ ~(get_local_abs_path(cb[t].path) \in DOMAIN local_fs')
                 \/ faults' = faults + 1]_vars

C5_Witness ==
    \E t \in Threads :
      /\ Replied(t, "release", "ok") /\ ~still_open(open_files, cb[t].entry_ino)
      /\ ~exists(get_local_abs_path(cb[t].path))
      /\ next_fh > 1 /\ cb[t].fh \in 1..(next_fh - 1)

\* C6: the handles replied by open start at 1 and are strictly increasing.
C6_HandlesIncrease ==
    /\ issued # << >> => issued[1] = 1
    /\ \A i, j \in 1..Len(issued) : i < j => issued[i] < issued[j]
    /\ \A h \in DOMAIN open_files : \E i \in 1..Len(issued) : issued[i] = h

\* handle 1 was released before a later open, which got handle 2
C6_Witness ==
    \E t \in Threads :
      /\ Replied(t, "open", "opened") /\ cb[t].reply.val.fh = 2
      /\ DOMAIN open_files = {2} /\ issued = <<1, 2>>

\* C7: the registry is a bijection on the inodes other than the root.
C7_RegistryBijection ==
    /\ \A i \in DOMAIN inode_to_path \ {ROOT_INODE} :
         /\ inode_to_path[i] \in DOMAIN path_to_inode
         /\ path_to_inode[inode_to_path[i]] = i
    /\ \A p \in DOMAIN path_to_inode :
         path_to_inode[p] # ROOT_INODE =>
           /\ path_to_inode[p] \in DOMAIN inode_to_path
           /\ inode_to_path[path_to_inode[p]] = p

\* two paths are interned and one has been forgotten again by a release
C7_Witness ==
    /\ Cardinality(DOMAIN inode_to_path) >= 3
    /\ \E t \in Threads : Replied(t, "release", "ok") /\ cb[t].entry_ino \notin DOMAIN inode_to_path

\* the steps that stat, fetch, upload or touch a local file
IOSteps == {"getattr_stat", "lookup_stat", "open_exists", "fetch_remote_open",
            "fetch_local_open", "fetch_copy", "open_hit_open", "write_io", "read_io",
            "flush_local_open", "flush_upload", "release_local_open",
            "release_upload", "release_evict"}

\* C8: no thread is about to do a remote operation or a local file operation while
\* it holds the mutex.
C8_NoIOUnderMutex == \A t \in Threads : pc[t] \in IOSteps => mutex # t

\* C9: a read at the offset and of the length of the latest write of the same handle
\* returns the bytes written (in a run without input/output failures).
C9_ReadReturnsWritten ==
    \A t \in Threads :
      (/\ pc[t] = "done" /\ cb[t].op = "read" /\ faults = 0
       /\ lastw.fh = cb[t].fh /\ lastw.fh \in DOMAIN open_files
       /\ cb[t].offset = lastw.offset /\ cb[t].size = Len(lastw.data))
        => cb[t].reply.kind = "data" /\ cb[t].reply.val = lastw.data

\* C10: after a flush that found the handle dirty and replied ok, the remote file is
\* the whole staged file, and holds the bytes of the latest write of the handle at
\* their offset.
C10_FlushUploadsWholeFile ==
    \A t \in Threads :
      (Replied(t, "flush", "ok") /\ cb[t].is_dirty)
        => /\ get_remote_abs_path(cb[t].path) \in DOMAIN remote
           /\ remote[get_remote_abs_path(cb[t].path)] = file_data[open_files[cb[t].fh].file.obj]
           /\ lastw.fh = cb[t].fh =>
                read_at(remote[get_remote_abs_path(cb[t].path)], lastw.offset, Len(lastw.data))
                  = lastw.data

C10_Witness ==
    \E t \in Threads :
      /\ Replied(t, "flush", "ok") /\ cb[t].is_dirty /\ lastw.fh = cb[t].fh
      /\ Len(file_data[open_files[cb[t].fh].file.obj]) >= 1

\* the only entry of its inode is the one of handle fh
OnlyEntry(fh, ino) == \A h \in DOMAIN open_files \ {fh} : open_files[h].ino # ino

\* C11: an open of an inode that no other entry references returns a handle on the
\* bytes of the remote file, also when the staged file existed before the open.
C11_StaleFileOverwritten ==
    \A t \in Threads :
      (Replied(t, "open", "opened") /\ OnlyEntry(cb[t].reply.val.fh, cb[t].ino))
        => file_data[open_files[cb[t].reply.val.fh].file.obj]
             = remote[get_remote_abs_path(cb[t].path)]

\* an open of thread t replies opened in this step
Opens(t) == pc[t] \in {"open_insert_new", "open_insert_hit"} /\ pc'[t] = "done"

AtHandleLookup(t) ==
    pc[t] \in {"read_lock", "write_lock", "flush_snapshot", "release_snapshot"}

\* C13: read, write, flush and release on a handle that is not in the open-file
\* table reply EINVAL and change neither the registry, the table, the handle counter,
\* the staged files nor the remote files.
C13_UnknownHandleIsEINVAL ==
    [][\A t \in Threads :
         (AtHandleLookup(t) /\ pc'[t] # pc[t] /\ cb[t].fh \notin DOMAIN open_files)
           => /\ pc'[t] = "done"
              /\ cb'[t].reply.kind = "error" /\ cb'[t].reply.val = "EINVAL"
              /\ UNCHANGED <<inode_to_path, path_to_inode, open_files, next_fh,
                             local_fs, file_data, remote>>]_vars

\* a handle that was issued and released is released once more
C13_Witness ==
    \E t \in Threads :
      /\ Replied(t, "release", "error") /\ cb[t].reply.val = "EINVAL"
      /\ cb[t].fh < next_fh /\ cb[t].fh \notin DOMAIN open_files

\* the access mode recorded in the entry of handle fh is read-only
ReadOnlyHandle(fh) == open_files[fh].flags % (O_ACCMODE + 1) = O_RDONLY

\* C14: a write on a known handle whose recorded access mode is read-only replies
\* EACCES and leaves the staged files and the entries as they are; a write on a
\* handle whose mode is write-only or read-write never replies EACCES.
C14_ReadOnlyWriteIsEACCES ==
    [][\A t \in Threads :
         (cb[t].op = "write" /\ pc[t] \in {"write_lock", "write_io"} /\ pc'[t] # pc[t]
            /\ cb[t].fh \in DOMAIN open_files)
           => IF ReadOnlyHandle(cb[t].fh)
              THEN /\ pc'[t] = "done"
                   /\ cb'[t].reply.kind = "error" /\ cb'[t].reply.val = "EACCES"
                   /\ file_data' = file_data /\ local_fs' = local_fs
                   /\ open_files' = open_files
              ELSE ~(cb'[t].reply.kind = "error" /\ cb'[t].reply.val = "EACCES")]_vars

\* a write was refused on a handle of the hit path that was opened after the handle
\* under the key of its inode, which is dirty
C14_Witness ==
    \E t \in Threads :
      /\ Replied(t, "write", "error") /\ cb[t].reply.val = "EACCES"
      /\ open_files[cb[t].fh].file.r
      /\ cb[t].fh > open_files[cb[t].fh].ino
      /\ open_files[cb[t].fh].ino \in DOMAIN open_files
      /\ open_files[open_files[cb[t].fh].ino].dirty

\* the parent inode of the lookup of thread t resolves to a remote regular file
ParentIsFile(t) ==
    /\ cb[t].ino # ROOT_INODE /\ cb[t].ino \in DOMAIN inode_to_path
    /\ sftp_stat(get_remote_abs_path(strip_prefix_root(inode_to_path[cb[t].ino]))) = "file"

\* C15: a lookup under a parent inode that resolves to a remote regular file replies
\* ENOTDIR.
C15_FileParentIsENOTDIR ==
    \A t \in Threads :
      (pc[t] = "done" /\ cb[t].op = "lookup" /\ ParentIsFile(t))
        => cb[t].reply.kind = "error" /\ cb[t].reply.val = "ENOTDIR"

\* the lookup of thread t replied ENOENT
LookupNotFound(t) == cb[t].reply.kind = "error" /\ cb[t].reply.val = "ENOENT"

\* C16: a lookup replies ENOENT when the parent is not the root and has no mapping,
\* and when the remote stat of the child path fails; otherwise it replies the
\* attributes of the remote child with the inode the registry holds for the child path.
C16_LookupReply ==
    \A t \in Threads :
      (pc[t] = "done" /\ cb[t].op = "lookup")
        => IF cb[t].ino # ROOT_INODE /\ cb[t].ino \notin DOMAIN inode_to_path
           THEN LookupNotFound(t)
           ELSE LET parent_path == IF cb[t].ino = ROOT_INODE THEN RootPath
                                   ELSE inode_to_path[cb[t].ino]
                    child == strip_prefix_root(join(parent_path, cb[t].name))
                    key == get_remote_abs_path(child)
                IN  IF key # BackingRoot /\ key \notin DOMAIN remote
                    THEN LookupNotFound(t)
                    ELSE /\ cb[t].reply.kind = "entry"
                         /\ child \in DOMAIN path_to_inode
                         /\ cb[t].reply.val.ino = path_to_inode[child]
                         /\ key \in DOMAIN remote =>
                              /\ cb[t].reply.val.kind = "RegularFile"
                              /\ cb[t].reply.val.size = Len(remote[key])

\* a lookup has replied the attributes of a child that had been interned before
C16_Witness ==
    \E t \in Threads :
      /\ Replied(t, "lookup", "entry") /\ cb[t].reply.val.ino \in looked_up
      /\ cb[t].reply.val.kind = "RegularFile" /\ next_fh > 1

\* some entry of inode ino is dirty
DirtyEntry(ino) == \E h \in DOMAIN open_files : open_files[h].ino = ino /\ open_files[h].dirty

\* C17: an open on the hit path, made while no entry of the same inode is dirty, gets
\* write access exactly when the requested access mode is write-only or read-write: a
\* dirty entry of another inode causes no downgrade, whatever its handle identifier.
C17_CleanInodeKeepsRequestedAccess ==
    [][\A t \in Threads :
         (pc[t] = "open_hit_check" /\ pc'[t] = "open_hit_open" /\ ~DirtyEntry(cb[t].ino))
           => /\ cb'[t].write_access <=> write_capable(cb[t].flags)
              /\ write_capable(cb'[t].flags) <=> write_capable(cb[t].flags)]_vars

\* this step is the successful write of thread t on handle h
WriteSucceeds(t, h) ==
    /\ cb[t].op = "write" /\ cb[t].fh = h /\ pc[t] = "write_io"
    /\ pc'[t] = "done" /\ cb'[t].reply.kind = "written"

\* this step ends the flush of thread t on handle h with ok, the staged file uploaded
FlushSucceeds(t, h) ==
    /\ cb[t].op = "flush" /\ cb[t].fh = h /\ pc[t] = "flush_clear"
    /\ pc'[t] = "done" /\ cb'[t].reply.kind = "ok"
    /\ remote[get_remote_abs_path(cb[t].path)]
         = file_data[local_fs[get_local_abs_path(cb[t].path)]]

\* C18: the dirty bit of an entry is false when open installs it, goes from false to
\* true only in a successful write on its handle, goes from true to false only at the
\* end of a flush of its handle whose upload succeeded, and is false when a flush of
\* the handle has replied ok.
C18_DirtyBitTransitions ==
    [][/\ \A h \in DOMAIN open_files' \ DOMAIN open_files : ~open_files'[h].dirty
       /\ \A h \in DOMAIN open_files \cap DOMAIN open_files' :
            /\ (~open_files[h].dirty /\ open_files'[h].dirty)
                  => \E t \in Threads : WriteSucceeds(t, h)
            /\ (open_files[h].dirty /\ ~open_files'[h].dirty)
                  => \E t \in Threads : FlushSucceeds(t, h)
       /\ \A t \in Threads :
            (cb[t].op = "flush" /\ pc[t] # "done" /\ pc'[t] = "done"
               /\ cb'[t].reply.kind = "ok" /\ cb[t].fh \in DOMAIN open_files')
              => ~open_files'[cb[t].fh].dirty]_vars

\* a flush of a handle that was dirty has replied ok, and the handle is clean while
\* another handle of the same inode is still dirty
C18_Witness ==
    \E t \in Threads :
      /\ Replied(t, "flush", "ok") /\ cb[t].is_dirty
      /\ cb[t].fh \in DOMAIN open_files /\ ~open_files[cb[t].fh].dirty
      /\ DirtySibling(cb[t].fh, cb[t].entry_ino)

\* thread t is in inode_for_path with a path that denotes the backing root
InternsRoot(t) ==
    /\ pc[t] \in {"inode_for_path", "inode_for_path_insert"} /\ pc'[t] # pc[t]
    /\ cb[t].path.comps = <<>>

\* C19: inode_for_path of a path that denotes the backing root returns the root inode
\* and installs no mapping, and path_for_inode of the root inode is the root path in
\* every state, also before init.
C19_RootInternsToRootInode ==
    /\ [](path_for_inode(ROOT_INODE) = Some(RootPath))
    /\ [][\A t \in Threads :
            InternsRoot(t) => /\ pc'[t] = "lookup_stat" /\ cb'[t].child = ROOT_INODE
                              /\ UNCHANGED <<inode_to_path, path_to_inode>>]_vars

\* an open or getattr of thread t replied ENOENT for want of a mapping of the inode
Unresolvable(t) ==
    /\ pc[t] = "done" /\ cb[t].op \in {"open", "getattr"}
    /\ cb[t].reply.kind = "error" /\ cb[t].reply.val = "ENOENT"
    /\ cb[t].ino \notin DOMAIN inode_to_path

\* C20: an inode that a lookup has returned stays resolvable: no open and no getattr
\* on it replies ENOENT because the registry has no mapping for it, also after all its
\* handles were released.
C20_LookedUpStaysResolvable ==
    \A t \in Threads : cb[t].ino \in looked_up => ~Unresolvable(t)

\* C21: when a file was opened, read and released with no write, and nothing else was
\* opened, the next open of the file is served from the staged file: it takes the hit
\* path and fetches nothing from the remote.
C21_SecondOpenIsCacheHit ==
    [][\A t \in Threads :
         (Opens(t) /\ next_fh = 2 /\ cb[t].path \in only_read)
           => pc[t] = "open_insert_hit"]_vars

\* C22: when the remote stat succeeded, the attribute record has the given inode and
\* block size 512; for a directory size 0, link count 2 and the remote permission
\* bits, or 0o755 when the reply has none; for a regular file link count 1, the
\* remote size, or 0 when the reply has none, and the remote permission bits, or
\* 0o644 when the reply has none.
C22_AttrProjection ==
    \A t \in Threads :
      (pc[t] = "done" /\ cb[t].op = "attr_from_remote" /\ cb[t].stat # NoneOpt)
        => LET o == cb[t].object
               sends == cb[t].sends
               attr == cb[t].reply.val
           IN  /\ cb[t].reply.kind = "attr"
               /\ attr.ino = cb[t].ino
               /\ attr.blksize = 512
               /\ attr.nlink = (IF o.dir THEN 2 ELSE 1)
               /\ attr.size = (IF o.dir \/ ~sends.size THEN 0 ELSE o.size)
               /\ attr.perm = (IF sends.perm THEN o.mode
                               ELSE IF o.dir THEN DirPerm ELSE FilePerm)

\* C23: when a lookup has replied ENOENT, the registry holds no mapping for the child
\* path of the lookup, in neither direction.
C23_NotFoundLookupInstallsNothing ==
    \A t \in Threads :
      (pc[t] = "done" /\ cb[t].op = "lookup" /\ LookupNotFound(t))
        => /\ strip_prefix_root(cb[t].path) \notin DOMAIN path_to_inode
           /\ cb[t].child \notin DOMAIN inode_to_path

\* this step of thread t belongs to an open and does not send the opened reply
OpenStepWithoutHandle(t) ==
    /\ cb'[t].op = "open" /\ pc[t] # "done" /\ pc'[t] # pc[t]
    /\ ~(pc'[t] = "done" /\ cb'[t].reply.kind = "opened")

\* C24: the open-file table, the handle counter and the registry change in no step of
\* an open but the one that sends the opened reply: an open that replies an error has
\* installed no entry and has left the counter and the registry as they were.
C24_FailedOpenInstallsNothing ==
    [][\A t \in Threads :
         OpenStepWithoutHandle(t)
           => UNCHANGED <<open_files, next_fh, inode_to_path, path_to_inode>>]_vars

\* an open has failed in its fetch or in its local open while handle 1 is open, and
\* the next handle is still 2
C24_Witness ==
    \E t \in Threads :
      /\ Replied(t, "open", "error") /\ cb[t].reply.val = "EIO"
      /\ DOMAIN open_files = {1} /\ next_fh = 2

\* the open of thread t has replied an error after its fetch had opened the local file
FetchFailed(t) == Replied(t, "open", "error") /\ cb[t].file.w /\ ~cb[t].file.r

\* C25: when an open has failed in its fetch, the cache directory holds no staged file
\* for the path of the open.
C25_FailedFetchLeavesNoFile ==
    \A t \in Threads : FetchFailed(t) => ~exists(get_local_abs_path(cb[t].path))

\* this step of thread t is the local open of a fetch, which truncates the staged file
FetchTruncates(t) == pc[t] = "fetch_local_open" /\ pc'[t] = "fetch_copy"

\* C26: under every interleaving of the opens, the local open of a fetch truncates no
\* file that an entry of the open-file table refers to.
C26_NoFetchOnReferencedFile ==
    [][\A t \in Threads :
         FetchTruncates(t)
           => \A h \in DOMAIN open_files : open_files[h].file.obj # cb'[t].file.obj]_vars

====
